---- MODULE Spec2Model ----
(***************************************************************************)
(* Model of the Telegram relay bot (src/chat_bot.py).                      *)
(*                                                                         *)
(* The application is built without concurrent_updates (chat_bot.py:138),  *)
(* so one update handler runs at a time; inside a handler the asyncio     *)
(* event loop interleaves the typing task with the handler at its awaits. *)
(* Each action below is one run of a coroutine between two awaits.        *)
(*                                                                         *)
(* Texts are sequences of characters; a character is a pair <<kind, n>>.  *)
(* The n-th text message of a user is the one-letter text whose letter    *)
(* has ordinal n, so that the order and the eviction of turns can be      *)
(* observed in the stored session.                                        *)
(***************************************************************************)
EXTENDS Integers, Sequences, FiniteSets, TLC

VARIABLES
    user_conversations,   \* chat_bot.py:26  user id -> list of turns (<<>>: key absent)
    started,              \* number of requests received so far, per user
    pc,                   \* position of the running handler
    user_id,              \* chat_bot.py:53
    user_history,         \* chat_bot.py:54  the list object the handler holds
    prompt,               \* chat_bot.py:57
    messages,             \* chat_bot.py:71  argument passed to the backend
    after_user,           \* stored session right after chat_bot.py:59
    response,             \* chat_bot.py:68  what the backend call settled with
    reply_from_bot,       \* chat_bot.py:83,91,94
    sent,                 \* texts delivered to the user by this request
    escaped,              \* TRUE when an exception left chat_with_gpt
    typing_task,          \* chat_bot.py:66  state of the heartbeat task
    signals_after_settle, \* typing signals emitted after the backend call settled
    is_voice,             \* TRUE while the request is handled by voice_chat
    voice_started,        \* number of voice messages received; the file_id of the last
    processing_message,   \* chat_bot.py:113  the "Processing voice message" notice
    files,                \* paths that exist on disk
    output_valid,         \* output.wav, when it exists, is a readable WAV file
    audio_path,           \* speech_to_text.py:51  path returned by convert_audio
    results,              \* speech_to_text.py:55
    heard,                \* texts the recognizer returned, in the order of the calls
    chunks_left,          \* chunks of the audio stream not read yet
    final_calls,          \* number of calls of recognizer.FinalResult()
    user_text,            \* chat_bot.py:116  value returned by audio_to_text
    a2t_raised            \* TRUE when audio_to_text ended with an exception

\* State of the transcription of one voice message
a2tVars == <<audio_path, results, heard, chunks_left, final_calls, user_text,
             a2t_raised, output_valid>>

voiceVars == <<is_voice, voice_started, processing_message, files, a2tVars>>

vars == <<user_conversations, started, pc, user_id, user_history, prompt,
          messages, after_user, response, reply_from_bot, sent, escaped,
          typing_task, signals_after_settle, voiceVars>>

----------------------------------------------------------------------------
(* Bounds of the exploration *)

MaxRequests == 20
MaxOtherRequests == 1
MaxSignals == 2

(* Program constants *)

MAX_HISTORY == 50
max_length == 4000

Users == {"u1", "u2"}

Quota(u) == IF u = "u1" THEN MaxRequests ELSE MaxOtherRequests

----------------------------------------------------------------------------
(* Texts *)

Min(a, b) == IF a < b THEN a ELSE b
Max(a, b) == IF a > b THEN a ELSE b

Letter(n)      == << <<"lower", n>> >>
UpperLetter(n) == << <<"upper", n>> >>
Completion(n)  == << <<"completion", n>> >>
EmptyText      == << >>
\* Python's None, a value that is not a text
None           == << <<"None", 0>> >>

SystemPrompt         == << <<"You are a helpful AI assistant.", 0>> >>
TimeoutNotice        == << <<"The AI is taking too long to respond.", 0>> >>
TemporaryIssueNotice == << <<"We're experiencing temporary server issues.", 0>> >>
OopsNotice           == << <<"Oops! Something went wrong.", 0>> >>

\* str.lower()
Lower(text) ==
    [i \in DOMAIN text |->
        IF text[i][1] = "upper" THEN <<"lower", text[i][2]>> ELSE text[i]]

\* Python truthiness of a str-or-None value
Truthy(x) == x /= None /\ x /= EmptyText

Turn(role, content) == [role |-> role, content |-> content]

SystemTurn == Turn("system", SystemPrompt)

----------------------------------------------------------------------------
(* Session store *)

\* The same function binding a new dictionary for a new user
get_user_history_rebinds(convs, u) ==
    IF convs[u] = << >>
    THEN [v \in Users |-> IF v = u THEN <<SystemTurn>> ELSE << >>]
    ELSE convs

\* chat_bot.py:28-37
get_user_history(convs, u) ==
    IF convs[u] = << >>
    THEN [convs EXCEPT ![u] = <<SystemTurn>>]
    ELSE convs

\* Python slice h[-n:] for n > 0
LastSlice(h, n) == SubSeq(h, Max(Len(h) - n, 0) + 1, Len(h))

\* The same statement with the index of the kept turn off by one
trim_wrong_index(h) == <<h[2]>> \o LastSlice(h, MAX_HISTORY)

\* The same statement with the slice one element too long
trim_long_slice(h) == <<h[1]>> \o LastSlice(h, MAX_HISTORY + 1)

\* chat_bot.py:39-41  the new list bound to user_conversations[user_id]
trim_user_history(h) == <<h[1]>> \o LastSlice(h, MAX_HISTORY)

----------------------------------------------------------------------------
(* Reply chunker, chat_bot.py:43-47 *)

\* The same slicing with a step one larger than the slice
RECURSIVE chunks_wide_step(_, _)
chunks_wide_step(text, L) ==
    IF Len(text) = 0 THEN << >>
    ELSE <<SubSeq(text, 1, Min(L, Len(text)))>>
         \o chunks_wide_step(SubSeq(text, L + 2, Len(text)), L)

RECURSIVE Chunks(_, _)
Chunks(text, L) ==
    IF Len(text) = 0 THEN << >>
    ELSE <<SubSeq(text, 1, Min(L, Len(text)))>>
         \o Chunks(SubSeq(text, L + 1, Len(text)), L)

----------------------------------------------------------------------------
(* Completion backend, chat_bot.py:68-73 *)

\* Exceptions the call can raise.  The deadline (timeout=90) is enforced by
\* the openai client, which raises openai.APITimeoutError; TimeoutError is
\* the builtin class that asyncio.TimeoutError names.
ExceptionClasses == {"TimeoutError", "APITimeoutError", "APIError"}

\* isinstance(e, asyncio.TimeoutError): APITimeoutError derives from
\* openai.APIConnectionError, not from TimeoutError
IsAsyncioTimeoutError(cls) == cls = "TimeoutError"

Raised(cls)   == [raised |-> cls, hasResponse |-> FALSE, choices |-> << >>]
NoResponse    == [raised |-> "",  hasResponse |-> FALSE, choices |-> << >>]
Choices(cs)   == [raised |-> "",  hasResponse |-> TRUE,  choices |-> cs]

\* What the call for the n-th request can settle with
BackendResults(n) ==
    {Raised(c) : c \in ExceptionClasses}
    \cup {NoResponse, Choices(<< >>)}
    \cup {Choices(<<c>>) : c \in {Completion(n), EmptyText, None}}

\* chat_bot.py:77
InvalidResponse(res) == ~res.hasResponse \/ res.choices = << >>

----------------------------------------------------------------------------
(* Heartbeat task, chat_bot.py:61-66 *)

\* Task.cancel(): a task suspended in sleep ends at once; a task suspended in
\* send_chat_action is interrupted while its signal may already be on the wire
Cancel(task) ==
    CASE task = "sending"  -> "cancelling"
      [] task = "sleeping" -> "cancelled"
      [] OTHER             -> task

----------------------------------------------------------------------------
(* Voice messages: files and transcription, src/speech_to_text.py *)

MaxVoiceRequests == 1
MaxChunks == 2

ProcessingNotice == << <<"Processing voice message, please wait...", 0>> >>
SorryNotice      == << <<"Sorry, I couldn't understand the voice message.", 0>> >>
VoiceErrorNotice == << <<"An error occurred while processing your voice message.", 0>> >>

\* Strings audio_to_text returns on failure, speech_to_text.py:49, 53, 84
ErrModelNotFound == << <<"Error: Model not found", 0>> >>
ErrConversion    == << <<"Error: Audio conversion failed", 0>> >>
ErrRecognition   == << <<"Error in speech recognition", 0>> >>

Space == <<"space", 0>>

Path(dir, stem, ext) == [dir |-> dir, stem |-> stem, ext |-> ext]
NoPath == Path("", 0, "")

\* chat_bot.py:108
OggPath(file_id) == Path("/tmp/", file_id, ".ogg")

\* speech_to_text.py:21  audio_path.rsplit(".", 1)[0] + ".wav"
WavSibling(path) == Path(path.dir, path.stem, ".wav")

\* speech_to_text.py:15  the fixed relative path of the resampled file
temp_output == Path("./", 0, ".wav")

\* str.join, speech_to_text.py:80
RECURSIVE JoinStr(_, _)
JoinStr(sep, list) ==
    IF Len(list) = 0 THEN EmptyText
    ELSE IF Len(list) = 1 THEN list[1]
    ELSE list[1] \o sep \o JoinStr(sep, Tail(list))

\* The capture with the segment put in front of the list
capture_in_front(list, segment) == <<segment>> \o list

\* results.append(...), speech_to_text.py:74, 78
capture(list, segment) == Append(list, segment)

\* What convert_audio (speech_to_text.py:13-43) can do with a downloaded
\* .ogg file: the path it returns (NoPath for None), the files it creates and
\* whether the resampled file it leaves is readable.  ffmpeg's exit status is
\* not inspected (lines 33-36), so a failed resampling still returns
\* temp_output.
ConvertOutcomes(path) ==
    LET wav == WavSibling(path)
    IN { \* line 20 raises: nothing was written
         [returns |-> NoPath, creates |-> {}, resampled |-> "none"],
         \* lines 22-27 or 33 raise after the sibling was written
         [returns |-> NoPath, creates |-> {wav}, resampled |-> "none"],
         \* already mono, 16 kHz
         [returns |-> wav, creates |-> {wav}, resampled |-> "none"],
         \* resampled
         [returns |-> temp_output, creates |-> {wav, temp_output},
          resampled |-> "valid"],
         \* ffmpeg wrote an unreadable file
         [returns |-> temp_output, creates |-> {wav, temp_output},
          resampled |-> "invalid"],
         \* ffmpeg wrote nothing
         [returns |-> temp_output, creates |-> {wav}, resampled |-> "missing"] }

\* speech_to_text.py:86-90  the finally block once the audio was opened
Cleanup(fs, path) == fs \ {path}

----------------------------------------------------------------------------
Init ==
    /\ user_conversations = [u \in Users |-> << >>]
    /\ started = [u \in Users |-> 0]
    /\ pc = "idle"
    /\ user_id = "u1"
    /\ user_history = << >>
    /\ prompt = EmptyText
    /\ messages = << >>
    /\ after_user = << >>
    /\ response = NoResponse
    /\ reply_from_bot = None
    /\ sent = << >>
    /\ escaped = FALSE
    /\ typing_task = "none"
    /\ signals_after_settle = 0
    /\ is_voice = FALSE
    /\ voice_started = 0
    /\ processing_message = "none"
    /\ files = {}
    /\ output_valid = FALSE
    /\ audio_path = NoPath
    /\ results = << >>
    /\ heard = << >>
    /\ chunks_left = 0
    /\ final_calls = 0
    /\ user_text = None
    /\ a2t_raised = FALSE

\* chat_bot.py:52-73  from the entry of the handler to the await of the
\* backend call.  text is update.message.text, transcript the user_text
\* argument (None for a text message).
ChatWithGpt(u, text, transcript) ==
    /\ LET convs0 == get_user_history(user_conversations, u)
           p      == IF Truthy(transcript) THEN transcript ELSE Lower(text)
           \* line 58 appends to the stored list object itself
           h      == Append(convs0[u], Turn("user", p))
           \* line 59 binds a new list; user_history still names h
           stored == trim_user_history(h)
       IN /\ user_conversations' = [convs0 EXCEPT ![u] = stored]
          /\ user_history' = h
          /\ prompt' = p
          /\ messages' = h
          /\ after_user' = stored
    /\ started' = [started EXCEPT ![u] = @ + 1]
    /\ user_id' = u
    /\ pc' = "await_backend"
    /\ response' = NoResponse
    /\ reply_from_bot' = None
    /\ escaped' = FALSE
    \* line 66: the task runs up to its first await as soon as the handler
    \* suspends at line 68
    /\ typing_task' = "sending"
    /\ signals_after_settle' = 0

\* chat_bot.py:140  a text message is dispatched to chat_with_gpt
TextMessage ==
    /\ pc \in {"idle", "done"}
    /\ \E u \in Users :
        /\ started[u] < Quota(u)
        /\ \E text \in {Letter(started[u] + 1), UpperLetter(started[u] + 1)} :
              ChatWithGpt(u, text, None)
    /\ sent' = << >>
    /\ is_voice' = FALSE
    /\ UNCHANGED <<voice_started, processing_message, files, a2tVars>>

\* chat_bot.py:68-95  the backend call settles with res and the handler runs
\* to its next await
BackendSettles ==
    /\ pc = "await_backend"
    /\ \E res \in BackendResults(started[user_id]) :
        /\ response' = res
        /\ IF res.raised /= ""
           THEN \* lines 90-95: the exception leaves the try block
                /\ reply_from_bot' =
                      IF IsAsyncioTimeoutError(res.raised)
                      THEN TimeoutNotice ELSE TemporaryIssueNotice
                /\ UNCHANGED <<typing_task, user_history, user_conversations>>
           ELSE IF InvalidResponse(res)
           THEN \* lines 77-79, then 93-95
                /\ typing_task' = Cancel(typing_task)
                /\ reply_from_bot' = TemporaryIssueNotice
                /\ UNCHANGED <<user_history, user_conversations>>
           ELSE \* lines 83-88
                /\ reply_from_bot' = res.choices[1]
                /\ typing_task' = Cancel(typing_task)
                /\ user_history' =
                      Append(user_history, Turn("assistant", res.choices[1]))
                /\ user_conversations' =
                      [user_conversations EXCEPT
                          ![user_id] = trim_user_history(@)]
    /\ pc' = "reply"
    /\ UNCHANGED <<started, user_id, prompt, messages, after_user, sent,
                   escaped, signals_after_settle, voiceVars>>

\* chat_bot.py:97-100 and 43-47.  len(None) raises TypeError, which leaves
\* chat_with_gpt: for a text message it is answered by error_handler
\* (chat_bot.py:133-135), for a voice message it is caught at chat_bot.py:123.
\* For a voice message the return to voice_chat runs its finally block
\* (chat_bot.py:127-131).
SendLongMessage ==
    /\ pc = "reply"
    /\ processing_message' =
          IF processing_message = "shown" THEN "deleted" ELSE processing_message
    /\ IF reply_from_bot = None
       THEN /\ escaped' = TRUE
            /\ sent' = Append(sent, IF is_voice THEN VoiceErrorNotice
                                               ELSE OopsNotice)
       ELSE /\ escaped' = FALSE
            /\ sent' = sent \o Chunks(reply_from_bot, max_length)
    /\ files' = IF is_voice THEN files \ {OggPath(voice_started)} ELSE files
    /\ pc' = "done"
    /\ UNCHANGED <<user_conversations, started, user_id, user_history, prompt,
                   messages, after_user, response, reply_from_bot,
                   typing_task, signals_after_settle, is_voice, voice_started,
                   a2tVars>>

Settled == pc \in {"reply", "done"}

CountSignal ==
    IF Settled
    THEN signals_after_settle' = signals_after_settle + 1
    ELSE UNCHANGED signals_after_settle

\* chat_bot.py:63  send_chat_action returns: one typing signal was emitted
TypingSent ==
    /\ typing_task = "sending"
    /\ signals_after_settle < MaxSignals
    /\ typing_task' = "sleeping"
    /\ CountSignal
    /\ UNCHANGED <<user_conversations, started, pc, user_id, user_history,
                   prompt, messages, after_user, response, reply_from_bot,
                   sent, escaped, voiceVars>>

\* chat_bot.py:64, 62  the sleep ends and the loop calls send_chat_action
TypingWake ==
    /\ typing_task = "sleeping"
    /\ typing_task' = "sending"
    /\ UNCHANGED <<user_conversations, started, pc, user_id, user_history,
                   prompt, messages, after_user, response, reply_from_bot,
                   sent, escaped, signals_after_settle, voiceVars>>

\* The same failure reaching the handler, as it would if the handler awaited
\* the task together with the backend call
typing_fails_propagates ==
    /\ typing_task = "sending"
    /\ typing_task' = "failed"
    /\ IF pc = "await_backend"
       THEN /\ pc' = "reply"
            /\ response' = Raised("APIError")
            /\ reply_from_bot' = TemporaryIssueNotice
       ELSE UNCHANGED <<pc, response, reply_from_bot>>
    /\ UNCHANGED <<user_conversations, started, user_id, user_history,
                   prompt, messages, after_user, sent, escaped,
                   signals_after_settle, voiceVars>>

\* chat_bot.py:63  send_chat_action raises: the task ends with the exception
TypingFails ==
    /\ typing_task = "sending"
    /\ typing_task' = "failed"
    /\ UNCHANGED <<user_conversations, started, pc, user_id, user_history,
                   prompt, messages, after_user, response, reply_from_bot,
                   sent, escaped, signals_after_settle, voiceVars>>

\* The cancellation reaches a task suspended in send_chat_action: the signal
\* in flight is delivered or not, and the task ends
TypingCancelled ==
    /\ typing_task = "cancelling"
    /\ typing_task' = "cancelled"
    /\ \/ CountSignal
       \/ UNCHANGED signals_after_settle
    /\ UNCHANGED <<user_conversations, started, pc, user_id, user_history,
                   prompt, messages, after_user, response, reply_from_bot,
                   sent, escaped, voiceVars>>

----------------------------------------------------------------------------
(* voice_chat, chat_bot.py:102-131, and audio_to_text, speech_to_text.py:45-90 *)

\* Variables chat_with_gpt sets at its entry, besides user_id and pc
chatVars == <<user_conversations, started, user_history, prompt, messages,
              after_user, response, reply_from_bot, escaped, typing_task,
              signals_after_settle>>

\* chat_bot.py:104-116  a voice message arrives: the attachment is downloaded
\* and the processing notice sent, or the download raises and lines 123-131
\* answer with the error notice
VoiceMessage ==
    /\ pc \in {"idle", "done"}
    /\ voice_started < MaxVoiceRequests
    /\ voice_started' = voice_started + 1
    /\ is_voice' = TRUE
    /\ \E u \in Users : user_id' = u
    /\ \/ /\ files' = files \cup {OggPath(voice_started')}
          /\ processing_message' = "shown"
          /\ sent' = <<ProcessingNotice>>
          /\ pc' = "transcribe"
       \/ /\ files' = files
          /\ processing_message' = "none"
          /\ sent' = <<VoiceErrorNotice>>
          /\ pc' = "done"
    /\ audio_path' = NoPath
    /\ results' = << >>
    /\ heard' = << >>
    /\ chunks_left' = 0
    /\ final_calls' = 0
    /\ user_text' = None
    /\ a2t_raised' = FALSE
    /\ response' = NoResponse
    /\ reply_from_bot' = None
    /\ escaped' = FALSE
    /\ UNCHANGED <<user_conversations, started, user_history, prompt, messages,
                   after_user, typing_task, signals_after_settle, output_valid>>

\* speech_to_text.py:47-63  the worker thread runs audio_to_text up to the
\* first read of the audio stream
AudioToTextStart ==
    /\ pc = "transcribe"
    /\ \E model_exists \in BOOLEAN, open_ok \in BOOLEAN, load_ok \in BOOLEAN,
          conv \in ConvertOutcomes(OggPath(voice_started)),
          n \in 0 .. MaxChunks :
        LET files1 == files \cup conv.creates
            valid1 == CASE conv.resampled = "valid"   -> TRUE
                        [] conv.resampled = "invalid" -> FALSE
                        [] OTHER                      -> output_valid
            \* wave.open succeeds on an existing, readable file
            opened == /\ open_ok
                      /\ conv.returns \in files1
                      /\ (conv.returns = temp_output => valid1)
        IN IF ~model_exists
           THEN \* lines 47-49
                /\ user_text' = ErrModelNotFound
                /\ pc' = "transcribed"
                /\ UNCHANGED <<files, output_valid, audio_path, a2t_raised,
                               chunks_left>>
           ELSE IF conv.returns = NoPath
           THEN \* lines 51-53
                /\ user_text' = ErrConversion
                /\ files' = files1
                /\ output_valid' = valid1
                /\ pc' = "transcribed"
                /\ UNCHANGED <<audio_path, a2t_raised, chunks_left>>
           ELSE IF ~opened
           THEN \* line 58 raises; line 84 returns, then line 87 raises
                \* UnboundLocalError and line 89 is not reached
                /\ a2t_raised' = TRUE
                /\ files' = files1
                /\ output_valid' = valid1
                /\ audio_path' = conv.returns
                /\ pc' = "transcribed"
                /\ UNCHANGED <<user_text, chunks_left>>
           ELSE IF ~load_ok
           THEN \* lines 60-62 raise; lines 82-90
                /\ user_text' = ErrRecognition
                /\ files' = Cleanup(files1, conv.returns)
                /\ output_valid' = valid1
                /\ audio_path' = conv.returns
                /\ pc' = "transcribed"
                /\ UNCHANGED <<a2t_raised, chunks_left>>
           ELSE /\ files' = files1
                /\ output_valid' = valid1
                /\ audio_path' = conv.returns
                /\ chunks_left' = n
                /\ pc' = "feeding"
                /\ UNCHANGED <<user_text, a2t_raised>>
    /\ UNCHANGED <<chatVars, user_id, sent, is_voice, voice_started,
                   processing_message, results, heard, final_calls>>

\* speech_to_text.py:65-74  one chunk is read and fed to the recognizer,
\* which finalizes a segment or not, or raises (lines 82-90)
FeedChunk ==
    /\ pc = "feeding"
    /\ chunks_left > 0
    /\ chunks_left' = chunks_left - 1
    /\ \/ UNCHANGED <<results, heard, user_text, files, pc>>
       \/ \E segment \in {Letter(chunks_left), EmptyText} :
            /\ heard' = Append(heard, segment)
            /\ results' = capture(results, segment)
            /\ UNCHANGED <<user_text, files, pc>>
       \/ /\ user_text' = ErrRecognition
          /\ files' = Cleanup(files, audio_path)
          /\ pc' = "transcribed"
          /\ UNCHANGED <<results, heard>>
    /\ UNCHANGED <<chatVars, user_id, sent, is_voice, voice_started,
                   processing_message, audio_path, final_calls, a2t_raised,
                   output_valid>>

\* speech_to_text.py:67-68, 76-90  the stream is exhausted: the final
\* segment is requested and the transcript returned
FinalResult ==
    /\ pc = "feeding"
    /\ chunks_left = 0
    /\ \E segment \in {Letter(0), EmptyText} :
        /\ heard' = Append(heard, segment)
        /\ results' = capture(results, segment)
    /\ final_calls' = final_calls + 1
    /\ user_text' = JoinStr(<<Space>>, results')
    /\ files' = Cleanup(files, audio_path)
    /\ pc' = "transcribed"
    /\ UNCHANGED <<chatVars, user_id, sent, is_voice, voice_started,
                   processing_message, audio_path, chunks_left, a2t_raised,
                   output_valid>>

\* chat_bot.py:118-119  the transcript is truthy: chat_with_gpt is called
VoiceTranscribed ==
    /\ pc = "transcribed"
    /\ ~a2t_raised
    /\ Truthy(user_text)
    /\ ChatWithGpt(user_id, EmptyText, user_text)
    /\ UNCHANGED <<sent, voiceVars>>

\* chat_bot.py:120-121, 127-131
VoiceNotUnderstood ==
    /\ pc = "transcribed"
    /\ ~a2t_raised
    /\ ~Truthy(user_text)
    /\ sent' = Append(sent, SorryNotice)
    /\ files' = files \ {OggPath(voice_started)}
    /\ pc' = "done"
    /\ UNCHANGED <<chatVars, user_id, is_voice, voice_started,
                   processing_message, a2tVars>>

\* chat_bot.py:123-131  audio_to_text raised
VoiceFailed ==
    /\ pc = "transcribed"
    /\ a2t_raised
    /\ sent' = Append(sent, VoiceErrorNotice)
    /\ files' = files \ {OggPath(voice_started)}
    /\ pc' = "done"
    /\ UNCHANGED <<chatVars, user_id, is_voice, voice_started,
                   processing_message, a2tVars>>

Next ==
    \/ TextMessage
    \/ BackendSettles
    \/ SendLongMessage
    \/ TypingSent
    \/ TypingWake
    \/ TypingFails
    \/ TypingCancelled

Spec == Init /\ [][Next]_vars

\* Voice messages
NextVoice ==
    \/ VoiceMessage
    \/ AudioToTextStart
    \/ FeedChunk
    \/ FinalResult
    \/ VoiceTranscribed
    \/ VoiceNotUnderstood
    \/ VoiceFailed
    \/ BackendSettles
    \/ SendLongMessage
    \/ TypingSent
    \/ TypingWake
    \/ TypingFails
    \/ TypingCancelled

SpecVoice == Init /\ [][NextVoice]_vars

\* Reply chunker: the state after the first request of u1 was answered by a
\* completion of n characters, for the lengths n around the multiples of
\* max_length and the short ones
MaxTextLen == 60

LongText(n) == [i \in 1 .. n |-> <<"completion", i>>]

ReplyLengths ==
    (0 .. MaxTextLen)
    \cup {k * max_length + d : k \in 1 .. 2, d \in {-1, 0, 1}}

InitChunk ==
    /\ \E n \in ReplyLengths :
        LET h == <<SystemTurn, Turn("user", Letter(1))>>
        IN /\ reply_from_bot = LongText(n)
           /\ response = Choices(<<LongText(n)>>)
           /\ user_history = Append(h, Turn("assistant", LongText(n)))
           /\ messages = h
           /\ after_user = trim_user_history(h)
           /\ user_conversations =
                 [u \in Users |->
                    IF u = "u1"
                    THEN trim_user_history(trim_user_history(h))
                    ELSE << >>]
    /\ started = [u \in Users |-> IF u = "u1" THEN 1 ELSE 0]
    /\ pc = "reply"
    /\ user_id = "u1"
    /\ prompt = Letter(1)
    /\ sent = << >>
    /\ escaped = FALSE
    /\ typing_task = "cancelled"
    /\ signals_after_settle = 0
    /\ is_voice = FALSE
    /\ voice_started = 0
    /\ processing_message = "none"
    /\ files = {}
    /\ output_valid = FALSE
    /\ audio_path = NoPath
    /\ results = << >>
    /\ heard = << >>
    /\ chunks_left = 0
    /\ final_calls = 0
    /\ user_text = None
    /\ a2t_raised = FALSE

NextChunk == SendLongMessage

SpecChunk == InitChunk /\ [][NextChunk]_vars

----------------------------------------------------------------------------
(* Properties of the inference orchestrator and the session store *)

Stored(u) == user_conversations[u]

HasSession(u) == Stored(u) /= << >>

\* The backend returned a choice whose content is a non-empty text
NonEmptyCompletion(res) ==
    /\ res.raised = "" /\ ~InvalidResponse(res)
    /\ Truthy(res.choices[1])

\* No response, zero choices, or a choice whose content is empty or missing
StructurallyEmpty(res) ==
    /\ res.raised = ""
    /\ \/ InvalidResponse(res)
       \/ ~Truthy(res.choices[1])

\* The 90-unit deadline of the call was exceeded
DeadlineExceeded(res) == res.raised = "APITimeoutError"

TimedOut(res) == res.raised \in {"APITimeoutError", "TimeoutError"}

Failed(res) == res.raised /= "" \/ StructurallyEmpty(res)

SystemTurns(h) == {i \in DOMAIN h : h[i].role = "system"}

\* C1: when the backend returns a non-empty completion text, the stored
\* session of the user ends, at the end of the request, with the assistant
\* turn holding that text, directly after the user turn of the same request;
\* from no session the first exchange leaves exactly system, user, assistant.
C1_AssistantTurnStored ==
    (Settled /\ NonEmptyCompletion(response)) =>
        LET h == Stored(user_id)
            n == Len(h)
        IN /\ n >= 3
           /\ h[n] = Turn("assistant", response.choices[1])
           /\ h[n - 1] = Turn("user", prompt)
           /\ (started[user_id] = 1 =>
                 h = <<SystemTurn, Turn("user", prompt),
                       Turn("assistant", response.choices[1])>>)

\* C2: in every reachable state every stored session holds exactly one
\* system turn.
C2_ExactlyOneSystemTurn ==
    \A u \in Users : HasSession(u) => Cardinality(SystemTurns(Stored(u))) = 1

\* C3: after each append-then-trim the first element of the stored session
\* is the system turn created with the session.
C3_FirstIsSystemTurn ==
    \A u \in Users : HasSession(u) => Stored(u)[1] = SystemTurn

\* A session of MAX_HISTORY + 1 turns was appended to and trimmed, and the
\* request has ended
C3_Witness ==
    /\ pc = "done"
    /\ Len(Stored(user_id)) = MAX_HISTORY + 1
    /\ Len(user_history) > MAX_HISTORY + 1
    /\ Stored(user_id)[1] = SystemTurn

\* The session C4 describes after turn t is appended to the session old:
\* the system turn followed by the last MAX_HISTORY turns appended
WindowAfter(old, t) ==
    LET turns == Tail(IF old = << >> THEN <<SystemTurn>> ELSE old) \o <<t>>
    IN <<SystemTurn>> \o LastSlice(turns, MAX_HISTORY)

\* C4: the stored session is the system turn followed by the last
\* min(k, MAX_HISTORY) of the k turns appended so far, in the order of their
\* appends.  Stated step by step, which is equivalent by induction on k:
\* every append-then-trim of a turn t (the user turn at the start of a
\* request, the assistant turn after a completion) turns the stored session
\* [system] + w into [system] + last MAX_HISTORY of (w + [t]).
C4_WindowOfAppendedTurns ==
    [][ /\ (pc' = "await_backend" /\ pc /= "await_backend") =>
              user_conversations'[user_id'] =
                  WindowAfter(user_conversations[user_id'],
                              Turn("user", prompt'))
        /\ (pc = "await_backend" /\ pc' = "reply"
              /\ Len(user_history') = Len(user_history) + 1) =>
              user_conversations'[user_id] =
                  WindowAfter(user_conversations[user_id],
                              user_history'[Len(user_history')])
      ]_vars

\* C5: the stored session never holds more than MAX_HISTORY + 1 turns.
C5_LengthBounded ==
    \A u \in Users : Len(Stored(u)) <= MAX_HISTORY + 1

\* The trim dropped a turn: the list trimmed was longer than the window
C5_Witness ==
    /\ pc = "await_backend"
    /\ Len(user_history) = MAX_HISTORY + 2
    /\ Len(Stored(user_id)) = MAX_HISTORY + 1

\* C6: once the backend call has settled, whatever the outcome, the
\* heartbeat task has been cancelled and emits at most one further typing
\* signal.
C6_HeartbeatCancelledOnSettle ==
    Settled =>
        /\ typing_task \in {"cancelling", "cancelled", "failed"}
        /\ signals_after_settle <= 1

\* C7: when the backend call exceeds its deadline, the reply delivered is
\* the timeout notice.
C7_DeadlineGivesTimeoutNotice ==
    (pc = "done" /\ DeadlineExceeded(response)) => sent = <<TimeoutNotice>>

\* C8: when the backend call ends in a timeout or any other failure, the
\* stored session at the end of the request is the session as it was right
\* after the user turn was appended and trimmed.
C8_FailureLeavesSession ==
    (Settled /\ Failed(response)) => Stored(user_id) = after_user

\* C9: a structurally empty or absent response and any raised failure other
\* than a timeout give exactly the temporary-issue notice and record no
\* assistant turn.
C9_ErrorGivesTemporaryIssueNotice ==
    (pc = "done" /\ (StructurallyEmpty(response)
                       \/ (response.raised /= "" /\ ~TimedOut(response)))) =>
        /\ sent = <<TemporaryIssueNotice>>
        /\ Stored(user_id) = after_user

\* C10: the messages passed to the backend are the stored session of the
\* user at the moment of the call.
C10_MessagesAreStoredSession ==
    pc = "await_backend" => messages = Stored(user_id)

----------------------------------------------------------------------------
(* Properties of concurrency, voice requests and the reply chunker *)

NonSystem(h) == SelectSeq(h, LAMBDA t : t.role /= "system")

IsSuffix(a, b) ==
    /\ Len(a) <= Len(b)
    /\ a = SubSeq(b, Len(b) - Len(a) + 1, Len(b))

\* The append-then-trim of turn t left t at the end of the session new and
\* the turns retained from the session old in their order
AppendedInOrder(old, new, t) ==
    /\ new /= << >>
    /\ new[Len(new)] = t
    /\ IsSuffix(NonSystem(SubSeq(new, 1, Len(new) - 1)), NonSystem(old))

\* C11: session mutations of one user are serialized: every append-then-trim
\* is one step, after which the appended turn (user or assistant) is the
\* last turn of the stored session, behind the turns appended before it; no
\* appended turn is lost.  Handlers are dispatched one at a time
\* (chat_bot.py:138), so the interleavings of requests are the serial ones.
C11_AppendsSerialized ==
    [][ /\ (pc' = "await_backend" /\ pc /= "await_backend") =>
              AppendedInOrder(user_conversations[user_id'],
                              user_conversations'[user_id'],
                              Turn("user", prompt'))
        /\ (pc = "await_backend" /\ pc' = "reply"
              /\ Len(user_history') = Len(user_history) + 1) =>
              AppendedInOrder(user_conversations[user_id],
                              user_conversations'[user_id],
                              user_history'[Len(user_history')])
      ]_vars

\* Files created for the voice request with the given file_id
RequestFiles(file_id) ==
    {OggPath(file_id), WavSibling(OggPath(file_id)), temp_output}

\* C12: when voice_chat returns, none of the files created for the request
\* (the .ogg, the sibling .wav, the resampled output file) is on disk.
C12_NoTemporaryFileRemains ==
    (is_voice /\ pc = "done") => files \cap RequestFiles(voice_started) = {}

ErrorStrings == {ErrModelNotFound, ErrConversion, ErrRecognition}

TranscriptionFailed == is_voice /\ (a2t_raised \/ user_text \in ErrorStrings)

\* C13: when the transcription fails, chat_with_gpt is not invoked, no
\* failure text becomes a prompt or a turn of the session, and the user
\* receives an error notice: the "couldn't understand" notice when the
\* normalization failed.
C13_TranscriptionFailureNotAPrompt ==
    TranscriptionFailed =>
        /\ pc \notin {"await_backend", "reply"}
        /\ \A i \in DOMAIN Stored(user_id) :
              Stored(user_id)[i].content \notin ErrorStrings
        /\ pc = "done" =>
              /\ sent[Len(sent)] \in {SorryNotice, VoiceErrorNotice}
              /\ user_text = ErrConversion => sent[Len(sent)] = SorryNotice

\* C14: every request ends with at least one reply delivered and no
\* exception leaves chat_with_gpt, whatever the backend outcome.
C14_AlwaysRepliesNeverRaises ==
    pc = "done" => (~escaped /\ Len(sent) >= 1)

RECURSIVE Concat(_)
Concat(list) ==
    IF Len(list) = 0 THEN << >> ELSE list[1] \o Concat(Tail(list))

\* Slice lengths tried besides max_length, on the short texts
SliceLengths == 1 .. 4

\* The chunks of text for maximum length L are lossless and bounded
LosslessBounded(text, L) ==
    LET cs == Chunks(text, L)
    IN /\ Concat(cs) = text
       /\ \A i \in DOMAIN cs :
             /\ Len(cs[i]) <= L
             /\ cs[i] = SubSeq(text, (i - 1) * L + 1, Min(i * L, Len(text)))
       /\ (Len(text) = L => Len(cs) = 1)
       /\ (Len(text) = L + 1 => Len(cs) = 2)

\* C15: the chunks sent by send_long_message are contiguous slices in the
\* original order whose concatenation is the text, each of length at most
\* L; a text of length L gives one chunk and a text of length L + 1 two.
C15_ChunkingLossless ==
    reply_from_bot /= None =>
        /\ LosslessBounded(reply_from_bot, max_length)
        /\ (Len(reply_from_bot) <= MaxTextLen =>
              \A L \in SliceLengths : LosslessBounded(reply_from_bot, L))
        /\ (pc = "done" => /\ Concat(sent) = reply_from_bot
                           /\ \A i \in DOMAIN sent : Len(sent[i]) <= max_length)

\* A text of max_length + 1 characters was sent in two chunks
C15_Witness ==
    /\ pc = "done"
    /\ Len(reply_from_bot) = max_length + 1
    /\ Len(sent) = 2
    /\ Len(sent[1]) = max_length
    /\ Len(sent[2]) = 1

\* C16: a step for the request of one user leaves the stored session of
\* every other user unchanged, also when it creates the user's session.
C16_OtherSessionsUnchanged ==
    [][ \A u \in Users :
          u /= user_id' => user_conversations'[u] = user_conversations[u] ]_vars

\* The session of u2 was created while u1 had one, and the sessions differ
C16_Witness ==
    /\ user_id = "u2"
    /\ pc = "done"
    /\ Len(Stored("u1")) > Len(Stored("u2"))
    /\ HasSession("u2")

\* The single-space join, built from the last segment backwards
RECURSIVE SpaceJoined(_)
SpaceJoined(segments) ==
    IF Len(segments) = 0 THEN << >>
    ELSE IF Len(segments) = 1 THEN segments[1]
    ELSE SpaceJoined(SubSeq(segments, 1, Len(segments) - 1))
         \o <<Space>> \o segments[Len(segments)]

\* C17: the transcript is the single-space join of the segments in the order
\* the recognizer returned them; the final segment is requested once, after
\* all chunks are exhausted, and comes last.
C17_TranscriptInCaptureOrder ==
    /\ final_calls <= 1
    /\ final_calls = 1 =>
          /\ chunks_left = 0
          /\ pc /= "feeding"
          /\ heard /= << >>
          /\ heard[Len(heard)] \in {Letter(0), EmptyText}
          /\ user_text = SpaceJoined(heard)
    /\ (pc = "feeding" /\ final_calls = 0) =>
          \A i \in DOMAIN heard : heard[i] \notin {Letter(0)}

\* Two finalized segments, then the final one: "hello world !"
C17_Witness ==
    /\ pc = "transcribed"
    /\ heard = <<Letter(2), Letter(1), Letter(0)>>
    /\ user_text = Letter(2) \o <<Space>> \o Letter(1) \o <<Space>> \o Letter(0)

\* C19: a failure of the heartbeat changes nothing but the task: the
\* handler's position, the backend outcome, the reply and the session are
\* left as they are, the backend call can still settle, and the failed task
\* sends no further signal.
C19_HeartbeatFailureIsSilent ==
    /\ [][ /\ (typing_task' = "failed" /\ typing_task /= "failed") =>
                UNCHANGED <<pc, user_conversations, user_history, messages,
                            response, reply_from_bot, sent, escaped>>
           /\ (typing_task = "failed" /\ pc /= "done" /\ pc /= "idle") =>
                /\ typing_task' = "failed"
                /\ UNCHANGED signals_after_settle
         ]_vars
    /\ []((typing_task = "failed" /\ pc = "await_backend") =>
             ENABLED BackendSettles)

\* The heartbeat failed during the call and the completion was delivered
C19_Witness ==
    /\ pc = "done"
    /\ typing_task = "failed"
    /\ NonEmptyCompletion(response)
    /\ sent = <<response.choices[1]>>
    /\ Stored(user_id) = trim_user_history(after_user)

\* C20: the messages passed to the backend hold at most MAX_HISTORY + 1
\* turns and exactly one system turn, at index 0.
C20_ContextBounded ==
    pc = "await_backend" =>
        /\ Len(messages) <= MAX_HISTORY + 1
        /\ SystemTurns(messages) = {1}

====
